---- MODULE Spec2Model ----
\* Model of homeassistant/components/august/__init__.py: the device-state
\* synchronisation engine of the August integration (AugustData and
\* async_setup_entry).
EXTENDS Integers, Sequences, FiniteSets, TLC

\* ------------------------------------------------------------------ bounds

\* async_stop is called at most MaxStops times on one data object.
MaxStops == 2
\* At most MaxCommands command operations are invoked.
MaxCommands == 1
\* At most MaxSubscribed ids are subscribed when a periodic refresh starts.
MaxSubscribed == 2
\* The same, in the specifications where the push channel's status changes.
MaxSubscribedOnChannel == 1

\* The ids the backend may list as locks and as doorbells. Id 2 may be listed
\* as both (an id collision); id 3 is a doorbell only.
LockCandidates == {1, 2}
DoorbellCandidates == {2, 3}
\* A lock's keypad has its own device id.
KeypadIdOf(lock_id) == 10 + lock_id
KeypadIds == {KeypadIdOf(l) : l \in LockCandidates}
AllIds == LockCandidates \cup DoorbellCandidates \cup KeypadIds

\* ------------------------------------------------------------- python values

None == [kind |-> "none"]
Unbound == [kind |-> "unbound"]
NoExc == "no_exception"
\* _get_device_name's None (a name is a string or None).
NoName == "<None>"

Put(f, k, v) == [x \in (DOMAIN f) \cup {k} |-> IF x = k THEN v ELSE f[x]]
Del(f, k) == [x \in (DOMAIN f) \ {k} |-> f[x]]
EmptyMap == [x \in {} |-> None]

\* The orders in which a list or the keys of a dict may hold the ids of S:
\* a list comprehension and a dict keep the order they were given.
Orderings(S) ==
    {s \in [1..Cardinality(S) -> S] :
        \A i, j \in 1..Cardinality(S) : s[i] = s[j] => i = j}

\* ------------------------------------------------------- backend's devices

LockName(id) == IF id = 1 THEN "Front Door" ELSE "Lock"
DoorbellName(id) == IF id = 2 THEN "Side Bell" ELSE "Porch Bell"
HouseOf(id) == IF id = 1 THEN "house1" ELSE "house2"

Lock(id) == [device_id |-> id, device_name |-> LockName(id), house_id |-> HouseOf(id)]
Doorbell(id) ==
    [device_id |-> id, device_name |-> DoorbellName(id), house_id |-> HouseOf(id)]

Keypad(lock_id, battery) ==
    [kind |-> "keypad", device_id |-> KeypadIdOf(lock_id), battery_level |-> battery]

LiveValues ==
    { [door_state |-> "closed", door_state_datetime |-> 1,
       lock_status |-> "locked", lock_status_datetime |-> 1],
      [door_state |-> "open", door_state_datetime |-> 2,
       lock_status |-> "unlocked", lock_status_datetime |-> 2] }

LockDetail(id, live, battery, bridge, keypad, offline_key) ==
    [kind |-> "lock", device_id |-> id,
     door_state |-> live.door_state,
     door_state_datetime |-> live.door_state_datetime,
     lock_status |-> live.lock_status,
     lock_status_datetime |-> live.lock_status_datetime,
     battery_level |-> battery, bridge |-> bridge,
     keypad |-> keypad, offline_key |-> offline_key]

DoorbellDetail(id, battery) ==
    [kind |-> "doorbell", device_id |-> id, battery_level |-> battery]

BatteryLevels == {50, 90}

\* What get_lock_detail may answer for a lock: either live value, with a
\* bridge that is online, offline or absent, with or without a keypad and an
\* offline key.
LockResponses(id) ==
    { LockDetail(id, live, shape[1], shape[2], shape[3], shape[4]) :
        live \in LiveValues,
        shape \in { <<90, "online", None, FALSE>>,
                    <<50, "offline", Keypad(id, 90), TRUE>>,
                    <<90, "none", Keypad(id, 50), FALSE>> } }

DoorbellResponses(id) == { DoorbellDetail(id, b) : b \in BatteryLevels }

\* Exceptions the backend calls raise.
TransportErrors ==
    {"TimeoutError", "ClientResponseError", "ClientError", "CannotConnect",
     "AugustApiAIOHTTPError"}
AuthErrors == {"InvalidAuth", "RequireValidation"}

\* ---------------------------------------------------------- pure functions

API_CACHED_ATTRS ==
    {"door_state", "door_state_datetime", "lock_status", "lock_status_datetime"}

\* getattr(lock_detail, attr) finds every attribute of API_CACHED_ATTRS (it
\* raises AttributeError otherwise).
HasLiveAttrs(detail) == API_CACHED_ATTRS \subseteq DOMAIN detail

\* _save_live_attrs: {attr: getattr(lock_detail, attr) for attr in API_CACHED_ATTRS}
_save_live_attrs(lock_detail) == [attr \in API_CACHED_ATTRS |-> lock_detail[attr]]

\* Faulty variant: the restore loop misses the last attribute.
restore_live_attrs_skips_one(lock_detail, attrs) ==
    [f \in DOMAIN lock_detail |->
        IF f \in (DOMAIN attrs) \ {"lock_status_datetime"} THEN attrs[f]
        ELSE lock_detail[f]]

\* _restore_live_attrs: setattr(lock_detail, attr, value) for each saved attr
_restore_live_attrs(lock_detail, attrs) ==
    [f \in DOMAIN lock_detail |->
        IF f \in DOMAIN attrs THEN attrs[f] ELSE lock_detail[f]]

\* aiohttp: ClientResponseError is a ClientError; the "except ClientError"
\* clause of _async_update_device_detail catches both.
CaughtByUpdateDetail(exc) == exc \in {"ClientError", "ClientResponseError"}

\* Faulty variant: the bulk loop goes on after any exception.
CaughtByBulkRefresh_everything(exc) == TRUE

\* The except clauses of _async_refresh_device_detail_by_ids.
CaughtByBulkRefresh(exc) ==
    exc \in {"TimeoutError", "ClientResponseError", "CannotConnect"}

\* Faulty variant: the live attributes are saved and restored whenever a stream exists.
PushConnected_ignores_connected(stream, conn) == stream

\* The "if self.activity_stream and self.activity_stream.pubnub.connected" test.
PushConnected(stream, conn) == stream /\ conn

\* _async_trigger_ble_lock_discovery: one discovery flow per lock detail of
\* the list, carrying the lock's offline key.
_async_trigger_ble_lock_discovery(locks_with_offline_keys) ==
    [i \in 1..Len(locks_with_offline_keys) |->
        [device_id |-> locks_with_offline_keys[i].device_id,
         key |-> locks_with_offline_keys[i].offline_key]]

\* Faulty variant: a discovery flow for every lock detail fetched.
update_device_detail_discovers_every_lock(details, device_id, out) ==
    IF out.tag = "ok"
    THEN [details |-> Put(details, device_id, out.detail),
          exc |-> NoExc,
          discovery |-> IF out.detail.kind = "lock"
                        THEN _async_trigger_ble_lock_discovery(<<out.detail>>)
                        ELSE <<>>]
    ELSE IF CaughtByUpdateDetail(out.tag)
    THEN [details |-> details, exc |-> "UnboundLocalError", discovery |-> <<>>]
    ELSE [details |-> details, exc |-> out.tag, discovery |-> <<>>]

\* Faulty variant: a failed fetch drops the detail the device had.
update_device_detail_forgets_on_failure(details, device_id, out) ==
    IF out.tag = "ok"
    THEN [details |-> Put(details, device_id, out.detail),
          exc |-> NoExc,
          discovery |-> IF out.detail.kind = "lock" /\ out.detail.offline_key
                        THEN _async_trigger_ble_lock_discovery(<<out.detail>>)
                        ELSE <<>>]
    ELSE [details |-> Del(details, device_id), exc |-> out.tag, discovery |-> <<>>]

\* _async_update_device_detail. `out` is the outcome of the awaited api_call:
\* [tag |-> "ok", detail |-> d] or [tag |-> <exception>]. A caught ClientError
\* leaves the local `detail` unbound, so the isinstance test below the try
\* raises UnboundLocalError.
_async_update_device_detail(details, device_id, out) ==
    IF out.tag = "ok"
    THEN [details |-> Put(details, device_id, out.detail),
          exc |-> NoExc,
          discovery |-> IF out.detail.kind = "lock" /\ out.detail.offline_key
                        THEN _async_trigger_ble_lock_discovery(<<out.detail>>)
                        ELSE <<>>]
    ELSE IF CaughtByUpdateDetail(out.tag)
    THEN [details |-> details, exc |-> "UnboundLocalError", discovery |-> <<>>]
    ELSE [details |-> details, exc |-> out.tag, discovery |-> <<>>]

\* Faulty variant: the keypad is never inserted.
InsertKeypad_missing(details, device_id) == details

\* Lines 303-309: a keypad carried by the stored lock detail is inserted
\* under its own id.
InsertKeypad(details, device_id) ==
    IF device_id \in DOMAIN details /\ details[device_id].keypad # None
    THEN Put(details, details[device_id].keypad.device_id, details[device_id].keypad)
    ELSE details

\* Lines 301-302: restore the saved live attributes when push is connected;
\* `saved` is Unbound when line 297 did not run.
RestoreStep(details, device_id, saved, stream, conn) ==
    IF ~PushConnected(stream, conn)
    THEN [details |-> details, exc |-> NoExc]
    ELSE IF saved = Unbound
    THEN [details |-> details, exc |-> "UnboundLocalError"]
    ELSE [details |-> Put(details, device_id,
                          _restore_live_attrs(details[device_id], saved)),
          exc |-> NoExc]

\* Faulty variant: the device-updated signal is emitted although the fetch
\* raised.
RefreshAfterFetch_signals_failed(details, device_id, is_lock, out, saved, stream, conn) ==
    LET u == _async_update_device_detail(details, device_id, out) IN
    IF u.exc # NoExc
    THEN [details |-> u.details, exc |-> u.exc, discovery |-> <<>>,
          signals |-> {device_id}]
    ELSE IF ~is_lock
    THEN [details |-> u.details, exc |-> NoExc, discovery |-> u.discovery,
          signals |-> {device_id}]
    ELSE LET r == RestoreStep(u.details, device_id, saved, stream, conn) IN
         IF r.exc # NoExc
         THEN [details |-> r.details, exc |-> r.exc, discovery |-> u.discovery,
               signals |-> {}]
         ELSE [details |-> InsertKeypad(r.details, device_id), exc |-> NoExc,
               discovery |-> u.discovery, signals |-> {device_id}]

\* _async_refresh_device_detail_by_id from the return of its awaited fetch to
\* its end, for an id in the lock collection (is_lock) or the doorbell
\* collection.
RefreshAfterFetch(details, device_id, is_lock, out, saved, stream, conn) ==
    LET u == _async_update_device_detail(details, device_id, out) IN
    IF u.exc # NoExc
    THEN [details |-> u.details, exc |-> u.exc, discovery |-> <<>>, signals |-> {}]
    ELSE IF ~is_lock
    THEN [details |-> u.details, exc |-> NoExc, discovery |-> u.discovery,
          signals |-> {device_id}]
    ELSE LET r == RestoreStep(u.details, device_id, saved, stream, conn) IN
         IF r.exc # NoExc
         THEN [details |-> r.details, exc |-> r.exc, discovery |-> u.discovery,
               signals |-> {}]
         ELSE [details |-> InsertKeypad(r.details, device_id), exc |-> NoExc,
               discovery |-> u.discovery, signals |-> {device_id}]

\* Faulty variant: the doorbell collection is looked up first.
get_device_doorbell_first(locks, doorbells, device_id) ==
    IF device_id \in DOMAIN doorbells THEN doorbells[device_id]
    ELSE IF device_id \in DOMAIN locks THEN locks[device_id]
    ELSE None

\* get_device: self._locks_by_id.get(device_id) or self._doorbells_by_id.get(device_id)
get_device(locks, doorbells, device_id) ==
    IF device_id \in DOMAIN locks THEN locks[device_id]
    ELSE IF device_id \in DOMAIN doorbells THEN doorbells[device_id]
    ELSE None

\* _get_device_name
_get_device_name(locks, doorbells, device_id) ==
    LET device == get_device(locks, doorbells, device_id) IN
    IF device # None THEN device.device_name ELSE NoName

\* Faulty variant: no doorbell is removed.
remove_inoperative_doorbells_keeps_all(doorbells, details) == doorbells

\* _remove_inoperative_doorbells: the doorbell collection afterwards.
_remove_inoperative_doorbells(doorbells, details) ==
    [id \in {d \in DOMAIN doorbells : d \in DOMAIN details} |-> doorbells[id]]

\* Faulty variant: a lock whose bridge is offline is removed like one without a bridge.
remove_inoperative_locks_drops_offline(locks, details) ==
    LET no_detail == {l \in DOMAIN locks : l \notin DOMAIN details}
        no_bridge == {l \in DOMAIN locks :
                        l \in DOMAIN details /\ details[l].bridge # "online"}
    IN [locks |-> [id \in (DOMAIN locks) \ (no_detail \cup no_bridge) |-> locks[id]],
        details |-> [id \in (DOMAIN details) \ no_bridge |-> details[id]]]

\* _remove_inoperative_locks: the lock collection and the detail map afterwards.
\* A lock with no detail leaves the lock collection; a lock whose detail has no
\* bridge leaves both; a lock with a bridge stays.
_remove_inoperative_locks(locks, details) ==
    LET no_detail == {l \in DOMAIN locks : l \notin DOMAIN details}
        no_bridge == {l \in DOMAIN locks :
                        l \in DOMAIN details /\ details[l].bridge = "none"}
    IN [locks |-> [id \in (DOMAIN locks) \ (no_detail \cup no_bridge) |-> locks[id]],
        details |-> [id \in (DOMAIN details) \ no_bridge |-> details[id]]]

\* Faulty variant: RequireValidation is not among the caught exceptions.
EntryOutcome_validation_uncaught(exc) ==
    IF exc = "InvalidAuth"
    THEN [kind |-> "ConfigEntryAuthFailed", message |-> "", cause |-> exc]
    ELSE IF exc = "TimeoutError"
    THEN [kind |-> "ConfigEntryNotReady",
          message |-> "Timed out connecting to august api", cause |-> exc]
    ELSE IF exc \in {"AugustApiAIOHTTPError", "ClientResponseError", "CannotConnect"}
    THEN [kind |-> "ConfigEntryNotReady", message |-> "", cause |-> exc]
    ELSE [kind |-> exc, message |-> "", cause |-> NoExc]

\* The except clauses of async_setup_entry: what the host sees for an
\* exception leaving async_setup_august.
EntryOutcome(exc) ==
    IF exc \in {"RequireValidation", "InvalidAuth"}
    THEN [kind |-> "ConfigEntryAuthFailed", message |-> "", cause |-> exc]
    ELSE IF exc = "TimeoutError"
    THEN [kind |-> "ConfigEntryNotReady",
          message |-> "Timed out connecting to august api", cause |-> exc]
    ELSE IF exc \in {"AugustApiAIOHTTPError", "ClientResponseError", "CannotConnect"}
    THEN [kind |-> "ConfigEntryNotReady", message |-> "", cause |-> exc]
    ELSE [kind |-> exc, message |-> "", cause |-> NoExc]

\* ------------------------------------------------------------------- state

VARIABLES
    pc,                    \* where async_setup_entry stands
    entry_result,          \* what async_setup_entry returned or raised
    activity_stream,       \* self.activity_stream is set (not None)
    connected,             \* activity_stream.pubnub.connected
    _device_detail_by_id,
    _doorbells_by_id,
    _locks_by_id,
    _house_ids,
    _pubnub_unsub,         \* self._pubnub_unsub is set (not None)
    batch,                 \* the running _async_refresh_device_detail_by_ids call
    ev,                    \* what the last completed detail fetch of a bulk
                           \* refresh did; reset by every other step that
                           \* writes the detail map
    pruned,                \* the collections as the prune passes found them
    stops,                 \* calls of async_stop so far
    stop_result,           \* what the last async_stop call did
    cmd,                   \* what the last command call did
    sync,                  \* the background task running _async_initial_sync
    push,                  \* what the last async_pubnub_message call did
    camera                 \* what the last refresh_camera_by_id call did

registry == <<_device_detail_by_id, _doorbells_by_id, _locks_by_id, _house_ids>>
vars == <<pc, entry_result, activity_stream, connected, _device_detail_by_id,
          _doorbells_by_id, _locks_by_id, _house_ids, _pubnub_unsub, batch, ev,
          pruned, stops, stop_result, cmd, sync, push, camera>>

NoSync ==
    [phase |-> "none", requested |-> {}, pending |-> {}, outs |-> EmptyMap,
     results |-> EmptyMap, warnings |-> {}, exc |-> NoExc]
NoPush == [op |-> "none"]
NoCmd == [op |-> "none", n |-> 0]
NoCamera == [op |-> "none"]
NoBatch ==
    [owner |-> "none", ids |-> <<>>, i |-> 0, phase |-> "idle", saved |-> Unbound,
     pre |-> None, conn0 |-> FALSE, exc |-> NoExc, benign |-> TRUE, attempted |-> {},
     signals |-> {}]
NoEv == [op |-> "none"]
NoEntryResult ==
    [kind |-> "pending", message |-> "", cause |-> NoExc, raised |-> NoExc,
     at |-> "none"]

\* AugustData.__init__; async_setup_entry has not started.
Init ==
    /\ pc = "gateway"
    /\ entry_result = NoEntryResult
    /\ activity_stream = FALSE
    /\ connected = FALSE
    /\ _device_detail_by_id = EmptyMap
    /\ _doorbells_by_id = EmptyMap
    /\ _locks_by_id = EmptyMap
    /\ _house_ids = {}
    /\ _pubnub_unsub = FALSE
    /\ batch = NoBatch
    /\ ev = NoEv
    /\ pruned = None
    /\ stops = 0
    /\ stop_result = "not called"
    /\ cmd = NoCmd
    /\ sync = NoSync
    /\ push = NoPush
    /\ camera = NoCamera

\* ------------------------------------------------------------ bulk refresh

\* The loop of _async_refresh_device_detail_by_ids from position j up to the
\* next awaited fetch (or to the end of the list). An id in neither collection
\* is not fetched: _async_refresh_device_detail_by_id only signals it. With
\* the push channel connected a lock's live attributes are saved first, which
\* raises KeyError without a stored detail and AttributeError when the stored
\* detail is a doorbell's.
RECURSIVE StartFrom(_, _, _, _, _, _, _)
StartFrom(b, j, details, locks, doorbells, stream, conn) ==
    IF j > Len(b.ids)
    THEN [b EXCEPT !.i = j, !.phase = "done", !.saved = Unbound, !.pre = None]
    ELSE LET id == b.ids[j]
             pre == IF id \in DOMAIN details THEN details[id] ELSE None
             att == b.attempted \cup {j}
         IN
         IF id \in DOMAIN locks
         THEN IF PushConnected(stream, conn)
              THEN IF id \notin DOMAIN details
                   THEN [b EXCEPT !.i = j, !.phase = "done", !.pre = None,
                                  !.saved = Unbound, !.exc = "KeyError",
                                  !.attempted = att]
                   ELSE IF ~HasLiveAttrs(details[id])
                   THEN [b EXCEPT !.i = j, !.phase = "done", !.pre = None,
                                  !.saved = Unbound, !.exc = "AttributeError",
                                  !.attempted = att]
                   ELSE [b EXCEPT !.i = j, !.phase = "fetching", !.pre = pre,
                                  !.saved = _save_live_attrs(details[id]),
                                  !.conn0 = (stream /\ conn), !.attempted = att]
              ELSE [b EXCEPT !.i = j, !.phase = "fetching", !.pre = pre,
                             !.saved = Unbound, !.conn0 = (stream /\ conn),
                             !.attempted = att]
         ELSE IF id \in DOMAIN doorbells
         THEN [b EXCEPT !.i = j, !.phase = "fetching", !.pre = pre,
                        !.saved = Unbound, !.conn0 = (stream /\ conn),
                        !.attempted = att]
         ELSE StartFrom([b EXCEPT !.signals = @ \cup {id}, !.attempted = att],
                        j + 1, details, locks, doorbells, stream, conn)

NewBatch(owner, ids) == [NoBatch EXCEPT !.owner = owner, !.ids = ids]

\* What the backend may answer to the detail fetch of the id being refreshed.
FetchOutcomes(id, is_lock) ==
    { [tag |-> "ok", detail |-> d] :
        d \in IF is_lock THEN LockResponses(id) ELSE DoorbellResponses(id) }
    \cup { [tag |-> e] : e \in TransportErrors }

\* The awaited fetch of batch.ids[batch.i] returns `out`: the rest of
\* _async_refresh_device_detail_by_id, the except clauses of the bulk loop and
\* the loop up to the next await. Gives the detail map, the batch and the
\* record of this fetch.
FetchStep(out) ==
    LET id == batch.ids[batch.i]
        is_lock == id \in DOMAIN _locks_by_id
        r == RefreshAfterFetch(_device_detail_by_id, id, is_lock, out, batch.saved,
                               activity_stream, connected)
        b1 == [batch EXCEPT !.benign = @ /\ out.tag \in {"ok", "TimeoutError"},
                           !.signals = r.signals]
        b2 == IF r.exc = NoExc \/ CaughtByBulkRefresh(r.exc)
              THEN StartFrom(b1, batch.i + 1, r.details, _locks_by_id,
                             _doorbells_by_id, activity_stream, connected)
              ELSE [b1 EXCEPT !.phase = "done", !.exc = r.exc, !.saved = Unbound,
                              !.pre = None]
    IN [details |-> r.details,
        batch |-> b2,
        ev |-> [op |-> "fetch", owner |-> batch.owner, id |-> id, idx |-> batch.i,
                is_lock |-> is_lock, out |-> out, pre |-> batch.pre,
                conn0 |-> batch.conn0,
                conn1 |-> (activity_stream /\ connected),
                exc |-> r.exc, discovery |-> r.discovery, signals |-> r.signals]]

\* ------------------------------------------------------------------- setup

\* async_setup_entry's except clauses applied to an exception raised at step `at`.
Raised(exc, at) ==
    [kind |-> EntryOutcome(exc).kind, message |-> EntryOutcome(exc).message,
     cause |-> EntryOutcome(exc).cause, raised |-> exc, at |-> at]

\* Lines 57-61 and 82-92: the gateway is set up and authenticated, the token
\* refreshed and the data object constructed, or one of the awaited calls raises.
GatewaySetup ==
    /\ pc = "gateway"
    /\ \/ /\ pc' = "listing"
          /\ UNCHANGED entry_result
       \/ \E e \in TransportErrors \cup AuthErrors :
            /\ pc' = "failed"
            /\ entry_result' = Raised(e, "gateway")
    /\ UNCHANGED <<activity_stream, connected, registry, _pubnub_unsub, batch, ev,
                   pruned, stops, stop_result, cmd, sync, push, camera>>

\* async_setup lines 173-183, run when the initial bulk refresh has returned:
\* both prune passes, the registration of the details with the push client
\* and the creation of the activity stream, up to the await of its setup.
AfterInitialRefresh(details, locks, doorbells) ==
    LET p == _remove_inoperative_locks(locks, details)
        d == _remove_inoperative_doorbells(doorbells, p.details)
    IN /\ _locks_by_id' = p.locks
       /\ _device_detail_by_id' = p.details
       /\ _doorbells_by_id' = d
       /\ pruned' = [locks |-> locks, doorbells |-> doorbells, details |-> details]
       /\ activity_stream' = TRUE
       /\ pc' = "stream_setup"
       /\ UNCHANGED entry_result

\* The initial bulk refresh raised `exc`: it leaves async_setup and
\* async_setup_august and reaches async_setup_entry's except clauses.
InitialRefreshRaised(details, locks, doorbells, exc) ==
    /\ _locks_by_id' = locks
    /\ _device_detail_by_id' = details
    /\ _doorbells_by_id' = doorbells
    /\ pc' = "failed"
    /\ entry_result' = Raised(exc, "refresh")
    /\ UNCHANGED <<pruned, activity_stream>>

\* The initial bulk refresh is suspended on a fetch.
InitialRefreshSuspended(details, locks, doorbells) ==
    /\ _locks_by_id' = locks
    /\ _device_detail_by_id' = details
    /\ _doorbells_by_id' = doorbells
    /\ pc' = "refreshing"
    /\ UNCHANGED <<pruned, activity_stream, entry_result>>

SetupContinues(b, details, locks, doorbells) ==
    IF b.phase = "fetching" THEN InitialRefreshSuspended(details, locks, doorbells)
    ELSE IF b.exc = NoExc THEN AfterInitialRefresh(details, locks, doorbells)
    ELSE InitialRefreshRaised(details, locks, doorbells, b.exc)

\* async_setup lines 151-167: the user and the two device lists are fetched
\* (or one of the three calls raises), the collections and the house ids are
\* built and the initial bulk refresh runs up to its first fetch.
Listing ==
    /\ pc = "listing"
    /\ \/ \E L \in SUBSET LockCandidates, D \in SUBSET DoorbellCandidates :
          \E listed_locks \in Orderings(L), listed_doorbells \in Orderings(D) :
            LET locks == [id \in L |-> Lock(id)]
                doorbells == [id \in D |-> Doorbell(id)]
                b == StartFrom(NewBatch("setup", listed_locks \o listed_doorbells), 1,
                               _device_detail_by_id, locks, doorbells,
                               activity_stream, connected)
            IN /\ _house_ids' = {HouseOf(id) : id \in L \cup D}
               /\ batch' = b
               /\ SetupContinues(b, _device_detail_by_id, locks, doorbells)
       \/ \E e \in TransportErrors :
            /\ pc' = "failed"
            /\ entry_result' = Raised(e, "listing")
            /\ UNCHANGED <<registry, batch, pruned, activity_stream>>
    /\ UNCHANGED <<connected, _pubnub_unsub, ev, stops, stop_result, cmd, sync, push,
                   camera>>

\* Lines 183-197: the activity stream's setup returns, the message handler is
\* subscribed, the push channel opened and, when a lock remains, the background
\* task of the initial sync created (not awaited); or the stream's setup raises.
StreamSetup ==
    /\ pc = "stream_setup"
    /\ \/ /\ _pubnub_unsub' = TRUE
          /\ pc' = "forward"
          /\ sync' = IF DOMAIN _locks_by_id # {}
                     THEN [NoSync EXCEPT !.phase = "created"] ELSE NoSync
          /\ UNCHANGED entry_result
       \/ \E e \in TransportErrors :
            /\ pc' = "failed"
            /\ entry_result' = Raised(e, "stream_setup")
            /\ UNCHANGED <<_pubnub_unsub, sync>>
    /\ pruned' = None
    /\ batch' = NoBatch
    /\ ev' = NoEv
    /\ UNCHANGED <<activity_stream, connected, registry, stops, stop_result, cmd, push,
                   camera>>

\* Lines 95-97: the platforms are set up and async_setup_entry returns True.
ForwardSetups ==
    /\ pc = "forward"
    /\ pc' = "loaded"
    /\ entry_result' = [NoEntryResult EXCEPT !.kind = "True"]
    /\ UNCHANGED <<activity_stream, connected, registry, _pubnub_unsub, batch, ev,
                   pruned, stops, stop_result, cmd, sync, push, camera>>

\* ------------------------------------------------------ refresh and channel

\* The push channel connects or disconnects.
ConnectionChange ==
    /\ _pubnub_unsub
    /\ connected' = ~connected
    /\ UNCHANGED <<pc, entry_result, activity_stream, registry, _pubnub_unsub, batch,
                   ev, pruned, stops, stop_result, cmd, sync, push, camera>>

\* The push channel connects and stays connected.
ChannelConnects ==
    /\ _pubnub_unsub
    /\ ~connected
    /\ connected' = TRUE
    /\ UNCHANGED <<pc, entry_result, activity_stream, registry, _pubnub_unsub, batch,
                   ev, pruned, stops, stop_result, cmd, sync, push, camera>>

\* self._subscriptions.keys(): the lists of at most n subscribed ids, in any
\* order (a dict keeps the order in which its keys were added). The ids may
\* be keypad ids and ids of devices the prune removed; the list may be empty.
RefreshLists(n) ==
    UNION {Orderings(S) : S \in {T \in SUBSET AllIds : Cardinality(T) <= n}}

\* _async_refresh with `ids` as self._subscriptions.keys(): the periodic
\* refresh of the subscribed ids starts and runs up to its first fetch.
_async_refresh(ids) ==
    /\ pc = "loaded"
    /\ batch.phase # "fetching"
    /\ batch' = StartFrom(NewBatch("periodic", ids), 1, _device_detail_by_id,
                          _locks_by_id, _doorbells_by_id, activity_stream, connected)
    /\ ev' = NoEv
    /\ UNCHANGED <<pc, entry_result, activity_stream, connected, registry,
                   _pubnub_unsub, pruned, stops, stop_result, cmd, sync, push,
                   camera>>

\* The periodic refresh with up to MaxSubscribed subscribed ids.
PeriodicRefresh == \E ids \in RefreshLists(MaxSubscribed) : _async_refresh(ids)

\* The periodic refresh with up to MaxSubscribedOnChannel subscribed ids.
PeriodicRefreshOnChannel ==
    \E ids \in RefreshLists(MaxSubscribedOnChannel) : _async_refresh(ids)

\* The fetch the bulk refresh is suspended on returns or raises.
FetchReturn ==
    /\ batch.phase = "fetching"
    /\ \E out \in FetchOutcomes(batch.ids[batch.i],
                                batch.ids[batch.i] \in DOMAIN _locks_by_id) :
         LET s == FetchStep(out) IN
         /\ batch' = s.batch
         /\ ev' = s.ev
         /\ IF batch.owner = "setup"
            THEN SetupContinues(s.batch, s.details, _locks_by_id, _doorbells_by_id)
            ELSE /\ _device_detail_by_id' = s.details
                 /\ UNCHANGED <<pc, entry_result, activity_stream, _doorbells_by_id,
                                _locks_by_id, pruned>>
    /\ UNCHANGED <<connected, _house_ids, _pubnub_unsub, stops, stop_result, cmd, sync, push,
                   camera>>

\* refresh_camera_by_id once its awaited fetch has ended with `out`: the
\* doorbell is looked up in the doorbell collection (KeyError for any other
\* id, before any fetch) and _async_update_device_detail does the rest. Nothing
\* is caught, saved, restored or signalled.
refresh_camera_by_id(details, doorbells, device_id, out) ==
    IF device_id \notin DOMAIN doorbells
    THEN [details |-> details, exc |-> "KeyError", discovery |-> <<>>]
    ELSE _async_update_device_detail(details, device_id, out)

\* A camera entity calls refresh_camera_by_id and the call ends. The call reads
\* the doorbell collection, which no step changes once the platforms are set
\* up, and touches the data object only after its one await, so the call is
\* one step taken when its fetch ends.
RefreshCamera ==
    /\ pc = "loaded"
    /\ \E device_id \in AllIds :
       \E out \in IF device_id \in DOMAIN _doorbells_by_id
                   THEN FetchOutcomes(device_id, FALSE)
                   ELSE {[tag |-> "not called"]} :
         LET r == refresh_camera_by_id(_device_detail_by_id, _doorbells_by_id,
                                       device_id, out)
         IN /\ _device_detail_by_id' = r.details
            /\ camera' = [op |-> "refresh_camera_by_id", device_id |-> device_id,
                          out |-> out, exc |-> r.exc, discovery |-> r.discovery]
            /\ ev' = IF out.tag = "ok" THEN NoEv ELSE ev
    /\ UNCHANGED <<pc, entry_result, activity_stream, connected, _doorbells_by_id,
                   _locks_by_id, _house_ids, _pubnub_unsub, batch, pruned, stops,
                   stop_result, cmd, sync, push>>

\* ---------------------------------------------------------------- teardown

\* get_device_detail: self._device_detail_by_id[device_id] (KeyError when absent).
get_device_detail(details, device_id) ==
    IF device_id \in DOMAIN details
    THEN [exc |-> NoExc, detail |-> details[device_id]]
    ELSE [exc |-> "KeyError", detail |-> None]

\* The data object exists: line 92 has run.
Constructed == pc # "gateway" /\ ~(pc = "failed" /\ entry_result.at = "gateway")

\* async_stop: calls the unsubscribe handle when there is one, then
\* self.activity_stream.async_stop(), an attribute access on None when the
\* stream was never created.
async_stop_result(stream) == IF stream THEN "returned" ELSE "AttributeError"

AsyncStop ==
    /\ Constructed
    /\ stops < MaxStops
    /\ stops' = stops + 1
    /\ stop_result' = async_stop_result(activity_stream)
    /\ UNCHANGED <<pc, entry_result, activity_stream, connected, registry,
                   _pubnub_unsub, batch, ev, pruned, cmd, sync, push, camera>>

\* ---------------------------------------------------------------- commands

\* The five operations that go through _async_call_api_op_requires_bridge and
\* what their backend call returns.
CommandOps ==
    {"async_lock", "async_unlock", "async_lock_async", "async_unlock_async",
     "async_status_async"}
BackendReturn(op) ==
    IF op \in {"async_lock", "async_unlock"} THEN "activities" ELSE "ack"
ApiErrorMessages == {"502 Bad Gateway", "The operation timed out"}
BackendOutcomes(op) ==
    {[tag |-> "ok", ret |-> BackendReturn(op)]}
    \cup {[tag |-> "AugustApiAIOHTTPError", message |-> m] : m \in ApiErrorMessages}
    \cup {[tag |-> e] : e \in {"TimeoutError", "ClientError"}}

\* f"DeviceID: {device_id}" and f"{device_name}: {err}", as the pieces the
\* f-strings join.
DeviceIdLabel(device_id) == <<"DeviceID: ", ToString(device_id)>>
ErrorText(device_name, err) == device_name \o <<": ", err>>

\* Faulty variant: a failed backend call is made a second time before the
\* failure is reported.
call_api_op_retries_once(locks, doorbells, device_id, out) ==
    IF out.tag = "ok"
    THEN [kind |-> "returned", ret |-> out.ret, message |-> <<>>, cause |-> NoExc,
          calls |-> 1]
    ELSE IF out.tag = "AugustApiAIOHTTPError"
    THEN LET name == _get_device_name(locks, doorbells, device_id)
             device_name == IF name = NoName THEN DeviceIdLabel(device_id)
                            ELSE <<name>>
         IN [kind |-> "HomeAssistantError", ret |-> "",
             message |-> ErrorText(device_name, out.message), cause |-> out.tag,
             calls |-> 2]
    ELSE [kind |-> out.tag, ret |-> "", message |-> <<>>, cause |-> NoExc,
          calls |-> 2]

\* _async_call_api_op_requires_bridge once the awaited backend call has
\* ended with `out`: the value returned or the exception raised to the caller,
\* and the number of times func was awaited (line 415, once on every path).
_async_call_api_op_requires_bridge(locks, doorbells, device_id, out) ==
    IF out.tag = "ok"
    THEN [kind |-> "returned", ret |-> out.ret, message |-> <<>>, cause |-> NoExc,
          calls |-> 1]
    ELSE IF out.tag = "AugustApiAIOHTTPError"
    THEN LET name == _get_device_name(locks, doorbells, device_id)
             device_name == IF name = NoName THEN DeviceIdLabel(device_id)
                            ELSE <<name>>
         IN [kind |-> "HomeAssistantError", ret |-> "",
             message |-> ErrorText(device_name, out.message), cause |-> out.tag,
             calls |-> 1]
    ELSE [kind |-> out.tag, ret |-> "", message |-> <<>>, cause |-> NoExc,
          calls |-> 1]

\* A caller invokes one of the command operations on a device id and the
\* backend call ends.
Command ==
    /\ pc \in {"forward", "loaded"}
    /\ cmd.n < MaxCommands
    /\ \E op \in CommandOps, device_id \in AllIds :
         \E out \in BackendOutcomes(op) :
           cmd' = [op |-> op, n |-> cmd.n + 1, device_id |-> device_id, out |-> out,
                   result |-> _async_call_api_op_requires_bridge(
                                  _locks_by_id, _doorbells_by_id, device_id, out)]
    /\ UNCHANGED <<pc, entry_result, activity_stream, connected, registry,
                   _pubnub_unsub, batch, ev, pruned, stops, stop_result, sync, push,
                   camera>>

\* ----------------------------------------------------------- push messages

\* activities_from_pubnub_message: the decoder returns no activity, or one that
\* carries the state the device reports.
DecodedActivities == {<<>>} \cup {<<live>> : live \in LiveValues}
\* activity_stream.async_process_newer_device_activities
StreamAnswers == {"accepted", "rejected"}

LockOfKeypad(keypad_id) == CHOOSE l \in LockCandidates : KeypadIdOf(l) = keypad_id
\* device.house_id of a stored detail; a keypad's is its lock's.
HouseOfDetail(detail) ==
    IF detail.kind = "keypad" THEN HouseOf(LockOfKeypad(detail.device_id))
    ELSE HouseOf(detail.device_id)

\* Faulty variant: the stream's answer is not consulted.
pubnub_message_ignores_stream(details, device_id, activities, answer) ==
    LET device == get_device_detail(details, device_id) IN
    IF device.exc # NoExc
    THEN [exc |-> device.exc, asked |-> FALSE, signals |-> <<>>, scheduled |-> <<>>]
    ELSE IF activities # <<>>
    THEN [exc |-> NoExc, asked |-> TRUE, signals |-> <<device.detail.device_id>>,
          scheduled |-> <<HouseOfDetail(device.detail)>>]
    ELSE [exc |-> NoExc, asked |-> FALSE, signals |-> <<>>, scheduled |-> <<>>]

\* async_pubnub_message: the exception raised, whether the stream was asked,
\* the device-updated signals emitted and the house refreshes scheduled.
async_pubnub_message(details, device_id, activities, answer) ==
    LET device == get_device_detail(details, device_id) IN
    IF device.exc # NoExc
    THEN [exc |-> device.exc, asked |-> FALSE, signals |-> <<>>, scheduled |-> <<>>]
    ELSE IF activities # <<>>
    THEN IF answer = "accepted"
         THEN [exc |-> NoExc, asked |-> TRUE,
               signals |-> <<device.detail.device_id>>,
               scheduled |-> <<HouseOfDetail(device.detail)>>]
         ELSE [exc |-> NoExc, asked |-> TRUE, signals |-> <<>>, scheduled |-> <<>>]
    ELSE [exc |-> NoExc, asked |-> FALSE, signals |-> <<>>, scheduled |-> <<>>]

\* The push client calls the subscribed handler with a message for device_id
\* that the decoder turns into `activities` and to which the stream, if asked,
\* gives `answer`. The handler writes nothing on the data object: it asks the
\* stream, emits the signal and schedules the house refresh.
HandlePushMessage(device_id, activities, answer) ==
    LET r == async_pubnub_message(_device_detail_by_id, device_id, activities, answer)
    IN /\ _pubnub_unsub
       /\ push' = [op |-> "message", device_id |-> device_id,
                   activities |-> activities,
                   answer |-> IF r.asked THEN answer ELSE "not asked",
                   exc |-> r.exc, signals |-> r.signals,
                   scheduled |-> r.scheduled]
       /\ UNCHANGED <<pc, entry_result, activity_stream, connected, registry,
                      _pubnub_unsub, batch, ev, pruned, stops, stop_result, cmd,
                      sync, camera>>

\* A push message for any id, with any decoding and any answer of the stream.
PushMessage ==
    \E device_id \in AllIds, activities \in DecodedActivities,
       answer \in StreamAnswers :
        HandlePushMessage(device_id, activities, answer)

\* A push message that reports a lock's state and that the stream accepts as
\* newer, delivered over the connected channel while the integration is loaded.
LockStatePush ==
    /\ pc = "loaded"
    /\ connected
    /\ \E device_id \in DOMAIN _locks_by_id, live \in LiveValues :
         HandlePushMessage(device_id, <<live>>, "accepted")

\* ------------------------------------------------------------ initial sync

\* Faulty variant: a status request for every entry of the detail map.
SyncRequests_all_details(details, locks) == DOMAIN details

\* The comprehension of _async_initial_sync: the ids a status request is made
\* for, one per key of the detail map that is also in the lock collection.
SyncRequests(details, locks) ==
    {device_id \in DOMAIN details : device_id \in DOMAIN locks}

\* What the backend may answer to a status request.
StatusOutcomes ==
    BackendOutcomes("async_status_async")
    \cup {[tag |-> e] : e \in {"ClientResponseError", "CannotConnect"}}

\* The isinstance test of lines 213-215 on one gathered result.
UnexpectedSyncResult(result) ==
    result.kind \notin {"returned", "TimeoutError", "ClientResponseError",
                        "CannotConnect"}

\* The background task starts: the comprehension builds one async_status_async
\* call per request (reading detail.bridge, an attribute only a lock detail
\* has) and gather starts them all. The hyper_bridge flag is handed to the
\* backend unchanged.
SyncStart ==
    /\ sync.phase = "created"
    /\ LET reqs == SyncRequests(_device_detail_by_id, _locks_by_id) IN
       IF \E id \in reqs : _device_detail_by_id[id].kind # "lock"
       THEN sync' = [sync EXCEPT !.phase = "done", !.exc = "AttributeError"]
       ELSE sync' = [sync EXCEPT !.phase = "waiting", !.requested = reqs,
                                 !.pending = reqs]
    /\ UNCHANGED <<pc, entry_result, activity_stream, connected, registry,
                   _pubnub_unsub, batch, ev, pruned, stops, stop_result, cmd, push,
                   camera>>

\* One of the gathered status requests ends, in any order; gather keeps its
\* return value or its exception (return_exceptions=True).
StatusReturn ==
    /\ sync.phase = "waiting"
    /\ \E id \in sync.pending, out \in StatusOutcomes :
         sync' = [sync EXCEPT
                    !.pending = @ \ {id},
                    !.outs = Put(@, id, out),
                    !.results = Put(@, id, _async_call_api_op_requires_bridge(
                                    _locks_by_id, _doorbells_by_id, id, out))]
    /\ UNCHANGED <<pc, entry_result, activity_stream, connected, registry,
                   _pubnub_unsub, batch, ev, pruned, stops, stop_result, cmd, push,
                   camera>>

\* Every request has ended: gather returns the results and the loop logs a
\* warning for each unexpected exception; the task ends.
SyncFinish ==
    /\ sync.phase = "waiting"
    /\ sync.pending = {}
    /\ sync' = [sync EXCEPT
                  !.phase = "done",
                  !.warnings = {id \in DOMAIN sync.results :
                                  UnexpectedSyncResult(sync.results[id])}]
    /\ UNCHANGED <<pc, entry_result, activity_stream, connected, registry,
                   _pubnub_unsub, batch, ev, pruned, stops, stop_result, cmd, push,
                   camera>>

Next ==
    \/ GatewaySetup
    \/ Listing
    \/ StreamSetup
    \/ ForwardSetups
    \/ ConnectionChange
    \/ PeriodicRefreshOnChannel
    \/ FetchReturn

Spec == Init /\ [][Next]_vars

\* The setup and the periodic refreshes of longer lists, the push channel
\* never connecting.
NextBulk ==
    \/ GatewaySetup
    \/ Listing
    \/ StreamSetup
    \/ ForwardSetups
    \/ PeriodicRefresh
    \/ FetchReturn

SpecBulk == Init /\ [][NextBulk]_vars

\* The setup with async_stop called at any point of it.
NextStop ==
    \/ GatewaySetup
    \/ Listing
    \/ StreamSetup
    \/ ForwardSetups
    \/ FetchReturn
    \/ AsyncStop

SpecStop == Init /\ [][NextStop]_vars

\* The setup followed by command calls.
NextCmd ==
    \/ GatewaySetup
    \/ Listing
    \/ StreamSetup
    \/ ForwardSetups
    \/ FetchReturn
    \/ Command

SpecCmd == Init /\ [][NextCmd]_vars

\* The setup and the push channel with its messages.
NextMsg ==
    \/ GatewaySetup
    \/ Listing
    \/ StreamSetup
    \/ ForwardSetups
    \/ FetchReturn
    \/ ConnectionChange
    \/ PushMessage

SpecMsg == Init /\ [][NextMsg]_vars

\* The setup, the periodic refreshes and a push channel that, once connected,
\* stays connected and delivers messages reporting lock states.
NextPush ==
    \/ GatewaySetup
    \/ Listing
    \/ StreamSetup
    \/ ForwardSetups
    \/ ChannelConnects
    \/ PeriodicRefreshOnChannel
    \/ FetchReturn
    \/ LockStatePush

SpecPush == Init /\ [][NextPush]_vars

\* The setup, the periodic refreshes and the camera entities' refreshes.
NextCamera ==
    \/ GatewaySetup
    \/ Listing
    \/ StreamSetup
    \/ ForwardSetups
    \/ PeriodicRefreshOnChannel
    \/ FetchReturn
    \/ RefreshCamera

SpecCamera == Init /\ [][NextCamera]_vars

\* The setup and the background task of the initial sync.
NextSync ==
    \/ GatewaySetup
    \/ Listing
    \/ StreamSetup
    \/ ForwardSetups
    \/ FetchReturn
    \/ SyncStart
    \/ StatusReturn
    \/ SyncFinish

SpecSync == Init /\ [][NextSync]_vars

\* ------------------------------------------------------------------ claims

\* The detail map as the last single-device refresh left it: the prune passes
\* run in the step that ends the initial bulk refresh.
StoredAfterRefresh == IF pruned # None THEN pruned.details ELSE _device_detail_by_id
DetailOrNone(details, id) == IF id \in DOMAIN details THEN details[id] ELSE None
LiveFields ==
    {"door_state", "door_state_datetime", "lock_status", "lock_status_datetime"}
LastFetch == ev.op = "fetch"
\* The last single-device refresh fetched a detail and returned normally.
RefreshSucceeded == LastFetch /\ ev.out.tag = "ok" /\ ev.exc = NoExc
AllAttempted == batch.phase = "done" => batch.attempted = 1..Len(batch.ids)

\* C1 (as claimed): in a bulk refresh whose fetches all succeed or time out,
\* a fetched detail is stored under its id (its non-live fields are the fetched
\* ones), a timed-out device keeps the detail it had or none, every id of the
\* list is attempted and the bulk refresh does not raise.
C1_TimeoutsIsolated ==
    (LastFetch /\ batch.benign) =>
        /\ batch.exc = NoExc
        /\ AllAttempted
        /\ ev.out.tag = "ok" =>
              /\ ev.id \in DOMAIN StoredAfterRefresh
              /\ \A f \in (DOMAIN ev.out.detail) \ LiveFields :
                    StoredAfterRefresh[ev.id][f] = ev.out.detail[f]
        /\ ev.out.tag = "TimeoutError" =>
              DetailOrNone(StoredAfterRefresh, ev.id) = ev.pre

\* C2 (as claimed): a network/client error of one fetch is swallowed by the
\* bulk refresh: it does not raise, the device keeps its prior detail and the
\* remaining ids are refreshed.
C2_NetworkErrorsSwallowed ==
    (LastFetch /\ ev.out.tag \in {"ClientError", "ClientResponseError", "CannotConnect"}) =>
        /\ batch.exc = NoExc
        /\ AllAttempted
        /\ DetailOrNone(StoredAfterRefresh, ev.id) = ev.pre

\* C3: once hydration and both prune passes have run, every device in the lock
\* or doorbell collection has an entry in the detail map.
C3_NoDanglingIds ==
    activity_stream =>
        \A id \in (DOMAIN _locks_by_id) \cup (DOMAIN _doorbells_by_id) :
            id \in DOMAIN _device_detail_by_id
C3_Witness ==
    /\ pruned # None
    /\ \E d \in DOMAIN pruned.doorbells : d \notin DOMAIN _doorbells_by_id
    /\ \E l \in DOMAIN pruned.locks : l \notin DOMAIN pruned.details
    /\ DOMAIN _locks_by_id # {}

\* C4: the lock prune pass removes a lock without detail from the lock
\* collection, removes a lock whose detail has no bridge from the lock
\* collection and the detail map, and keeps every lock whose detail has a
\* bridge, online or offline, in both.
C4_LockPrune ==
    pruned # None =>
        \A l \in DOMAIN pruned.locks :
            IF l \notin DOMAIN pruned.details
            THEN l \notin DOMAIN _locks_by_id
            ELSE IF pruned.details[l].bridge = "none"
            THEN l \notin DOMAIN _locks_by_id /\ l \notin DOMAIN _device_detail_by_id
            ELSE /\ pruned.details[l].bridge \in {"online", "offline"}
                 /\ l \in DOMAIN _locks_by_id
                 /\ _locks_by_id[l] = pruned.locks[l]
                 /\ l \in DOMAIN _device_detail_by_id
                 /\ _device_detail_by_id[l] = pruned.details[l]
C4_Witness ==
    /\ pruned # None
    /\ \E l \in DOMAIN pruned.locks :
          l \in DOMAIN pruned.details /\ pruned.details[l].bridge = "none"
    /\ \E l \in DOMAIN _locks_by_id : _device_detail_by_id[l].bridge = "offline"

\* C5: with the push connection connected, a successful lock refresh leaves
\* the four live fields of the stored detail as they were in the detail held
\* before the refresh, and every other field as the poll response gives it.
C5_LiveOverlay ==
    (RefreshSucceeded /\ ev.is_lock /\ ev.conn1) =>
        /\ ev.pre # None
        /\ ev.id \in DOMAIN _device_detail_by_id
        /\ DOMAIN _device_detail_by_id[ev.id] = DOMAIN ev.out.detail
        /\ \A f \in LiveFields : _device_detail_by_id[ev.id][f] = ev.pre[f]
        /\ \A f \in (DOMAIN ev.out.detail) \ LiveFields :
              _device_detail_by_id[ev.id][f] = ev.out.detail[f]
C5_Witness ==
    /\ RefreshSucceeded /\ ev.is_lock /\ ev.conn1
    /\ ev.pre.lock_status = "locked" /\ ev.out.detail.lock_status = "unlocked"
    /\ ev.out.detail.door_state = "open"
    /\ ev.pre.battery_level # ev.out.detail.battery_level
    /\ _device_detail_by_id[ev.id].lock_status = "locked"

\* C6: with the push connection not connected, or no activity stream yet, a
\* successful lock refresh stores the fetched detail as it is.
C6_PollTrusted ==
    (RefreshSucceeded /\ ev.is_lock /\ ~ev.conn1) =>
        /\ ev.id \in DOMAIN StoredAfterRefresh
        /\ StoredAfterRefresh[ev.id] = ev.out.detail
C6_Witness ==
    /\ RefreshSucceeded /\ ev.is_lock /\ ~ev.conn1 /\ ~ev.conn0
    /\ ev.owner = "periodic"
    /\ ev.pre.lock_status = "locked" /\ ev.out.detail.lock_status = "unlocked"
    /\ _device_detail_by_id[ev.id].lock_status = "unlocked"

\* C7: after a successful refresh of a lock whose fetched detail carries a
\* keypad, get_device_detail of the keypad's id returns that keypad, and the
\* lock's detail is stored under the lock's id.
C7_KeypadStored ==
    (RefreshSucceeded /\ ev.is_lock /\ ev.out.detail.keypad # None) =>
        /\ get_device_detail(StoredAfterRefresh, ev.out.detail.keypad.device_id)
              = [exc |-> NoExc, detail |-> ev.out.detail.keypad]
        /\ ev.out.detail.keypad.device_id # ev.id
        /\ get_device_detail(StoredAfterRefresh, ev.id).exc = NoExc
        /\ get_device_detail(StoredAfterRefresh, ev.id).detail.keypad
              = ev.out.detail.keypad
C7_Witness ==
    /\ RefreshSucceeded /\ ev.is_lock /\ ev.out.detail.keypad # None
    /\ ev.pre = None
    /\ KeypadIdOf(ev.id) \in DOMAIN StoredAfterRefresh

\* C8: a backend API error of a command operation reaches the caller as one
\* HomeAssistantError whose text is the device's name (the lock's when the id
\* is in both collections), or "DeviceID: <id>" for an unknown id, followed by
\* ": " and the backend's message.
C8_ExpectedLabel ==
    IF cmd.device_id \in DOMAIN _locks_by_id
    THEN <<_locks_by_id[cmd.device_id].device_name>>
    ELSE IF cmd.device_id \in DOMAIN _doorbells_by_id
    THEN <<_doorbells_by_id[cmd.device_id].device_name>>
    ELSE <<"DeviceID: ", ToString(cmd.device_id)>>
C8_CommandErrorTranslated ==
    (cmd.op # "none" /\ cmd.out.tag = "AugustApiAIOHTTPError") =>
        /\ cmd.result.kind = "HomeAssistantError"
        /\ cmd.result.cause = "AugustApiAIOHTTPError"
        /\ cmd.result.message = C8_ExpectedLabel \o <<": ", cmd.out.message>>
C8_Witness ==
    /\ cmd.op = "async_lock" /\ cmd.out.tag = "AugustApiAIOHTTPError"
    /\ cmd.device_id \in (DOMAIN _locks_by_id) \cap (DOMAIN _doorbells_by_id)
    /\ cmd.result.message = <<LockName(cmd.device_id), ": ", "502 Bad Gateway">>

\* C9 (as claimed): async_stop does not raise, whether setup never ran, failed
\* part-way or completed, on a first or a repeated call.
C9_StopNeverRaises == stop_result # "AttributeError"

\* C10 (as claimed): the error async_setup_entry raises tells invalid
\* credentials, a required validation and backend unavailability apart, the
\* first two unchanged in kind.
Unavailable ==
    {"TimeoutError", "AugustApiAIOHTTPError", "ClientResponseError", "CannotConnect"}
CauseKind(exc) ==
    IF exc = "InvalidAuth" THEN "AuthRequired"
    ELSE IF exc = "RequireValidation" THEN "ValidationRequired"
    ELSE "BackendUnavailable"
HostKind(kind) ==
    IF kind = "ConfigEntryAuthFailed" THEN "AuthRequired"
    ELSE IF kind = "ConfigEntryNotReady" THEN "BackendUnavailable"
    ELSE kind
C10_ThreeKindsApart ==
    (pc = "failed" /\ entry_result.raised \in AuthErrors \cup Unavailable) =>
        HostKind(entry_result.kind) = CauseKind(entry_result.raised)

\* C10 (amended): an InvalidAuth or a RequireValidation leaving the setup both
\* reach the host as ConfigEntryAuthFailed, a TimeoutError, API error, client
\* response error or CannotConnect leaving it as ConfigEntryNotReady, each
\* with the original exception as its cause.
C10_TwoKindsApart ==
    pc = "failed" =>
        /\ entry_result.raised \in AuthErrors =>
              /\ entry_result.kind = "ConfigEntryAuthFailed"
              /\ entry_result.cause = entry_result.raised
        /\ entry_result.raised \in Unavailable =>
              /\ entry_result.kind = "ConfigEntryNotReady"
              /\ entry_result.cause = entry_result.raised
C10_Witness ==
    /\ pc = "failed"
    /\ entry_result.raised = "RequireValidation"
    /\ entry_result.kind = "ConfigEntryAuthFailed"

\* C11: the initial sync task exists only once async_setup has returned, and
\* exists then exactly when a lock remains; it issues one status request for
\* every remaining lock and for no other id; each request's result is that of
\* its own backend outcome whatever the others did; no exception leaves the
\* task, which logs exactly the unexpected ones.
C11_WakeFanOut ==
    /\ sync.phase # "none" => pc \in {"forward", "loaded"}
    /\ pc \in {"forward", "loaded"} =>
          (sync.phase # "none" <=> DOMAIN _locks_by_id # {})
    /\ sync.exc = NoExc
    /\ sync.phase \in {"waiting", "done"} =>
          /\ sync.requested = DOMAIN _locks_by_id
          /\ sync.requested \cap KeypadIds = {}
          /\ sync.requested \cap ((DOMAIN _doorbells_by_id) \ (DOMAIN _locks_by_id)) = {}
          /\ (DOMAIN sync.results) \cup sync.pending = sync.requested
          /\ (DOMAIN sync.results) \cap sync.pending = {}
          /\ \A id \in DOMAIN sync.results :
                sync.results[id] = _async_call_api_op_requires_bridge(
                                       _locks_by_id, _doorbells_by_id, id, sync.outs[id])
    /\ sync.phase = "done" =>
          /\ sync.pending = {}
          /\ sync.warnings =
                {id \in sync.requested :
                    sync.outs[id].tag \in {"AugustApiAIOHTTPError", "ClientError"}}
C11_Witness ==
    /\ pc = "loaded"
    /\ sync.phase = "waiting"
    /\ sync.requested = {1, 2}
    /\ sync.pending = {2}
    /\ sync.results[1].kind = "HomeAssistantError"
    /\ 3 \in DOMAIN _doorbells_by_id
    /\ KeypadIdOf(1) \in DOMAIN _device_detail_by_id

\* C12: a push message for a device with a stored detail emits the
\* device-updated signal for that device and schedules a refresh of its house
\* exactly when the decoder gave an activity and the stream accepted it as
\* newer; otherwise it emits and schedules nothing; and the handler's step
\* leaves the registry as it was, whatever it emitted.
PushHouse(device_id) ==
    IF device_id \in KeypadIds THEN HouseOf(LockOfKeypad(device_id))
    ELSE HouseOf(device_id)
PushHandled == push.op = "message" /\ push.exc = NoExc
PushSignalIffAccepted ==
    PushHandled =>
        IF push.activities # <<>> /\ push.answer = "accepted"
        THEN /\ push.signals = <<push.device_id>>
             /\ push.scheduled = <<PushHouse(push.device_id)>>
        ELSE /\ push.signals = <<>>
             /\ push.scheduled = <<>>
             /\ push.answer = "rejected" <=> push.activities # <<>>
C12_PushSignal ==
    /\ []PushSignalIffAccepted
    /\ [][PushMessage => UNCHANGED registry]_vars
C12_Witness ==
    /\ PushHandled
    /\ push.device_id \in DOMAIN _locks_by_id
    /\ push.activities # <<>>
    /\ push.answer = "rejected"
    /\ push.signals = <<>>

\* C13 (as claimed): no push message for a device is handled while a refresh
\* of that device is suspended on its fetch.
RefreshSuspendedOn(device_id) ==
    batch.phase = "fetching" /\ batch.ids[batch.i] = device_id
C13_NoPushDuringRefresh ==
    [][LockStatePush => ~RefreshSuspendedOn(push'.device_id)]_vars

\* C15: a command operation awaits its backend call once: a value the backend
\* returns is returned to the caller, a failure reaches the caller as an
\* exception of that same call, and the call is not made again.
C15_OneBackendCall ==
    cmd.op # "none" =>
        /\ cmd.result.calls = 1
        /\ cmd.out.tag = "ok" =>
              /\ cmd.result.kind = "returned"
              /\ cmd.result.ret = BackendReturn(cmd.op)
        /\ cmd.out.tag = "AugustApiAIOHTTPError" =>
              /\ cmd.result.kind = "HomeAssistantError"
              /\ cmd.result.cause = cmd.out.tag
        /\ cmd.out.tag \in {"TimeoutError", "ClientError"} =>
              cmd.result.kind = cmd.out.tag
C15_Witness ==
    /\ cmd.op = "async_unlock_async"
    /\ cmd.device_id \in DOMAIN _locks_by_id
    /\ cmd.out.tag = "TimeoutError"
    /\ cmd.result.kind = "TimeoutError"
    /\ cmd.result.calls = 1

\* C16: while a bulk refresh awaits the fetch of position i, every position
\* up to i and none after it has been started, the last fetch that ended is
\* that of an earlier position and ended normally or with a caught failure,
\* and every position between the two holds an id that needs no fetch.
NeedsFetch(id) == id \in (DOMAIN _locks_by_id) \cup (DOMAIN _doorbells_by_id)
C16_Sequential ==
    batch.phase = "fetching" =>
        /\ batch.i \in 1..Len(batch.ids)
        /\ batch.attempted = 1..batch.i
        /\ NeedsFetch(batch.ids[batch.i])
        /\ LET last == IF LastFetch THEN ev.idx ELSE 0 IN
           /\ last < batch.i
           /\ \A j \in (last + 1)..(batch.i - 1) : ~NeedsFetch(batch.ids[j])
        /\ LastFetch =>
              /\ ev.id = batch.ids[ev.idx]
              /\ ev.exc \in {NoExc, "TimeoutError", "ClientResponseError",
                              "CannotConnect"}
C16_Witness ==
    /\ batch.phase = "fetching"
    /\ batch.owner = "setup"
    /\ batch.ids = <<2, 1, 3, 2>>
    /\ batch.i = 4
    /\ LastFetch /\ ev.idx = 3 /\ ev.id = 3 /\ ev.exc = "CannotConnect"

\* C17: once async_setup has returned, no step removes a device from the lock
\* or the doorbell collection or an entry from the detail map, and a periodic
\* or a camera refresh whose fetch fails leaves the detail map as it was.
SetupCompleted == pc \in {"forward", "loaded"}
C18_DiscoveryTrigger ==
    LastFetch =>
        /\ ev.discovery =
              IF /\ ev.out.tag = "ok"
                 /\ ev.out.detail.kind = "lock"
                 /\ ev.out.detail.offline_key
              THEN <<[device_id |-> ev.id, key |-> ev.out.detail.offline_key]>>
              ELSE <<>>
        /\ ev.out.tag = "ok" =>
              /\ ev.id \in DOMAIN StoredAfterRefresh
              /\ \A f \in (DOMAIN ev.out.detail) \ LiveFields :
                    StoredAfterRefresh[ev.id][f] = ev.out.detail[f]
C18_Witness ==
    /\ LastFetch /\ ev.owner = "periodic"
    /\ ev.out.tag = "ok" /\ ev.is_lock
    /\ ev.out.detail.offline_key
    /\ ev.pre # None /\ ~ev.pre.offline_key
    /\ Len(ev.discovery) = 1
    /\ _device_detail_by_id[ev.id].offline_key

\* C19 (as claimed): a lock refresh whose fetch returns a detail while the
\* push connection's status differs from what it was when the refresh started
\* does not raise, and, having no snapshot to restore or no connection to
\* restore for, stores the fetched detail as it is.
C19_RobustToStatusChange ==
    (LastFetch /\ ev.is_lock /\ ev.out.tag = "ok" /\ ev.conn0 # ev.conn1) =>
        /\ ev.exc = NoExc
        /\ StoredAfterRefresh[ev.id] = ev.out.detail

\* C20 (as claimed): when the prune passes have run, every entry of the detail
\* map is stored under the id of a device of the lock or doorbell collection or
\* is the keypad of a lock of the lock collection.
C20_NoOrphanDetail ==
    pruned # None =>
        \A id \in DOMAIN _device_detail_by_id :
            \/ id \in (DOMAIN _locks_by_id) \cup (DOMAIN _doorbells_by_id)
            \/ \E l \in DOMAIN _locks_by_id :
                  /\ _device_detail_by_id[l].keypad # None
                  /\ _device_detail_by_id[l].keypad.device_id = id

\* C21 (as claimed): every device-updated signal a refresh emits is for the id
\* whose detail that call fetched and stored.
SignalsOfLastFetch == IF LastFetch THEN ev.signals ELSE {}
C21_SignalOnlyAfterStore ==
    /\ LastFetch => (ev.signals # {} => ev.out.tag = "ok")
    /\ batch.signals \subseteq
          (IF LastFetch /\ ev.out.tag = "ok" THEN {ev.id} ELSE {})

\* C21 (amended): a single-device refresh emits the device-updated signal for
\* its id exactly when it returns without raising: after it fetched and stored
\* a detail for an id of the lock or doorbell collection, and, without any
\* fetch, for an id in neither collection; a refresh whose fetch fails raises
\* and emits none.
KnownAtRefresh(id) ==
    IF pruned # None
    THEN id \in (DOMAIN pruned.locks) \cup (DOMAIN pruned.doorbells)
    ELSE NeedsFetch(id)
SkippedSinceLastFetch ==
    LET last == IF LastFetch THEN ev.idx ELSE 0 IN
    {batch.ids[j] : j \in {k \in batch.attempted :
                              k > last /\ ~KnownAtRefresh(batch.ids[k])}}
C21_SignalWhenReturned ==
    /\ LastFetch =>
          /\ ev.signals = IF ev.exc = NoExc THEN {ev.id} ELSE {}
          /\ ev.out.tag # "ok" => ev.exc # NoExc
          /\ ev.signals # {} =>
                /\ ev.id \in DOMAIN StoredAfterRefresh
                /\ \A f \in (DOMAIN ev.out.detail) \ LiveFields :
                      StoredAfterRefresh[ev.id][f] = ev.out.detail[f]
    /\ batch.signals = SignalsOfLastFetch \cup SkippedSinceLastFetch
C21_Witness ==
    /\ batch.owner = "periodic" /\ batch.phase = "done"
    /\ batch.ids = <<3, KeypadIdOf(2)>>
    /\ LastFetch /\ ev.id = 3 /\ ev.out.tag = "ok"
    /\ batch.signals = {3, KeypadIdOf(2)}
    /\ KeypadIdOf(1) \in DOMAIN _device_detail_by_id
    /\ KeypadIdOf(2) \notin DOMAIN _device_detail_by_id

====
